---- MODULE Spec2Model ----
(***************************************************************************)
(* A model of src/main.py: the AI file sorter.  One process start runs the *)
(* module-level code (log initialisation, lines 144-148) and then          *)
(* process_downloads (lines 109-141): every regular file of DOWNLOADS is   *)
(* extracted, classified by the two-tier fallback, moved under DOCUMENTS   *)
(* and logged.                                                             *)
(*                                                                         *)
(* Python strings are tuples of one-character strings, so that slicing,    *)
(* suffix, stem, lower(), strip() and path joining are computed rather     *)
(* than assumed.  Extracted text, which may be longer than the 1000        *)
(* characters classify_text keeps, is a tuple of runs [ch, n]: n copies of *)
(* the character ch.                                                       *)
(***************************************************************************)
EXTENDS Naturals, Sequences, FiniteSets

(* ------------------------------ bounds -------------------------------- *)

\* entries of DOWNLOADS at the first process start
MaxFiles == 2

\* process starts (python main.py) in one behaviour
MaxRuns == 2

(* ------------------------- strings and paths --------------------------- *)

\* the value None; no Python string equals it (its one element is no character)
None == <<"None">>

\* Python truthiness of a str-or-None value: `if v:` / `if not v:`
Truthy(v) == v # None /\ v # <<>>

Whitespace == {" ", "\n", "\t"}

\* s[a..b] of a tuple, empty when a > b
Slice(s, a, b) == [i \in 1..(b + 1 - a) |-> s[i + a - 1]]

\* str.rfind(c) over s[1..i]: the last position of c, counted from 1, or 0 if none
RECURSIVE RFind(_, _, _)
RFind(s, c, i) ==
    IF i = 0 THEN 0
    ELSE IF s[i] = c THEN i
    ELSE RFind(s, c, i - 1)

\* pathlib PurePath.suffix: from the last dot on, unless that dot is the first or
\* the last character of the name (then there is no suffix)
Suffix(name) ==
    LET d == RFind(name, ".", Len(name))
    IN  IF d > 1 /\ d < Len(name) THEN Slice(name, d, Len(name)) ELSE <<>>

\* pathlib PurePath.stem: the name without its suffix
Stem(name) ==
    LET d == RFind(name, ".", Len(name))
    IN  IF d > 1 /\ d < Len(name) THEN Slice(name, 1, d - 1) ELSE name

\* str.lower() on the letters the model's names use
LowerChar(c) ==
    CASE c = "P" -> "p"
      [] c = "D" -> "d"
      [] c = "F" -> "f"
      [] OTHER -> c

Lower(s) == [i \in 1..Len(s) |-> LowerChar(s[i])]

\* the components of a relative path string: s.split("/") without empty parts
RECURSIVE SplitPath(_, _)
SplitPath(s, cur) ==
    IF s = <<>> THEN (IF cur = <<>> THEN <<>> ELSE <<cur>>)
    ELSE IF Head(s) = "/"
         THEN (IF cur = <<>> THEN <<>> ELSE <<cur>>) \o SplitPath(Tail(s), <<>>)
         ELSE SplitPath(Tail(s), Append(cur, Head(s)))

\* str(path): the components of a path under DOCUMENTS joined by "/"
RECURSIVE PathStr(_)
PathStr(p) ==
    IF p = <<>> THEN <<>>
    ELSE IF Len(p) = 1 THEN p[1]
    ELSE p[1] \o <<"/">> \o PathStr(Tail(p))

\* a path and all its ancestors below DOCUMENTS
Ancestors(p) == {Slice(p, 1, k) : k \in 1..Len(p)}

(* ------------------------------- text ---------------------------------- *)

\* a Python str as text: one run per character
ToRuns(s) == [i \in 1..Len(s) |-> [ch |-> s[i], n |-> 1]]

\* number of characters of a text
RECURSIVE TextLen(_)
TextLen(t) == IF t = <<>> THEN 0 ELSE Head(t).n + TextLen(Tail(t))

\* t[:k]
RECURSIVE Prefix(_, _)
Prefix(t, k) ==
    IF t = <<>> \/ k = 0 THEN <<>>
    ELSE IF Head(t).n = 0 THEN Prefix(Tail(t), k)
    ELSE IF Head(t).n >= k THEN <<[ch |-> Head(t).ch, n |-> k]>>
    ELSE <<Head(t)>> \o Prefix(Tail(t), k - Head(t).n)

BlankRun(r) == r.n = 0 \/ r.ch \in Whitespace

RECURSIVE LStrip(_)
LStrip(t) ==
    IF t = <<>> THEN <<>>
    ELSE IF BlankRun(Head(t)) THEN LStrip(Tail(t))
    ELSE t

RECURSIVE RStrip(_)
RStrip(t) ==
    IF t = <<>> THEN <<>>
    ELSE IF BlankRun(t[Len(t)]) THEN RStrip(Slice(t, 1, Len(t) - 1))
    ELSE t

\* str.strip()
Strip(t) == RStrip(LStrip(t))

\* Python truthiness of a str held as text: `if t:`
NonEmpty(t) == TextLen(t) > 0

(* --------------------------- configuration ----------------------------- *)

\* line 20: adjacent literals "IT" "IT/Jens" are one string, so there are 8 labels
CATEGORIES ==
    << <<"I", "T">> \o <<"I", "T", "/", "J", "e", "n", "s">>,
       <<"M", "a", "t", "h">>,
       <<"H", "i", "s", "t", "o", "r", "y">>,
       <<"C", "o", "d", "i", "n", "g">>,
       <<"F", "i", "n", "a", "c", "i", "a", "l", " ", "L", "i", "t", "e", "r", "a", "c", "y">>,
       <<"C", "o", "l", "l", "e", "g", "e", " ", "P", "r", "e", "p">>,
       <<"E", "n", "g", "l", "i", "s", "h">>,
       <<"O", "t", "h", "e", "r">> >>

Other == <<"O", "t", "h", "e", "r">>

\* text[:1000] in classify_text
ClassifyLimit == 1000

\* the header row of the audit log
Header ==
    << <<"t", "i", "m", "e", "s", "t", "a", "m", "p">>,
       <<"f", "i", "l", "e", "_", "n", "a", "m", "e">>,
       <<"c", "a", "t", "e", "g", "o", "r", "y">>,
       <<"n", "e", "w", "_", "p", "a", "t", "h">> >>

Digit(d) ==
    CASE d = 0 -> "0" [] d = 1 -> "1" [] d = 2 -> "2" [] d = 3 -> "3" [] d = 4 -> "4"
      [] d = 5 -> "5" [] d = 6 -> "6" [] d = 7 -> "7" [] d = 8 -> "8" [] OTHER -> "9"

\* datetime.isoformat(): fixed-width digits, so later instants sort later
IsoFormat(t) == <<Digit((t \div 10) % 10), Digit(t % 10)>>

(* ------------------------ the modelled inputs -------------------------- *)

NotesTxt == <<"n", ".", "t", "x", "t">>
ScanPdf == <<"s", ".", "P", "D", "F">>
PicPng == <<"p", ".", "p", "n", "g">>
ArcZip == <<"a", ".", "z", "i", "p">>
EssayDocx == <<"e", ".", "d", "o", "c", "x">>
SubDir == <<"s", "u", "b">>

\* names an entry of DOWNLOADS may have; SubDir is a subdirectory, the rest files
EntrySeq == <<NotesTxt, SubDir, ScanPdf, ArcZip, PicPng, EssayDocx>>
EntryNames == {EntrySeq[i] : i \in 1..Len(EntrySeq)}
DirNames == {SubDir}

\* the directories the model starts from: MaxFiles entries that follow each other
\* in EntrySeq, taken as a ring
Window(i) == {EntrySeq[((i + k) % Len(EntrySeq)) + 1] : k \in 0..(MaxFiles - 1)}
Directories == {Window(i) : i \in 1..Len(EntrySeq)}

Sp(k) == [ch |-> " ", n |-> k]
Vis(k) == [ch |-> "x", n |-> k]

\* contents a reader or the OCR engine may yield: empty, blank, visible, and
\* visible text behind a run of blanks one shorter than, or as long as, the
\* classifier's limit
Texts ==
    { <<>>, <<Sp(1)>>, <<Vis(1)>>,
      <<Sp(ClassifyLimit - 1), Vis(1)>>, <<Sp(ClassifyLimit), Vis(1)>> }

(* ------------------------------- state --------------------------------- *)

VARIABLES
    pc,         \* where the process is: "off", "scan", "next", "extract", "content",
                \* "fallback", "move", "log", "done", "crashed"
    runs,       \* process starts so far
    downloads,  \* names of the entries of DOWNLOADS
    docDirs,    \* paths (below DOCUMENTS) that are directories
    docFiles,   \* files below DOCUMENTS: [path, name], name the file's name in DOWNLOADS
    logExists,  \* LOG_FILE.exists()
    log,        \* the rows of LOG_FILE
    snapshot,   \* the entries DOWNLOADS.iterdir() listed in this run
    pending,    \* the listed entries the loop has not been given yet
    attempted,  \* names whose loop body was entered in this run, in order
    file,       \* file_path.name of the file in the loop body
    text,       \* text
    ocrUsed,    \* whether the OCR path (ocr_pdf, or readtext on an image) was taken
    probe,      \* what extract_text_from_file met: an exception it caught, the text
                \* layer of the PDF, the image's stat
    category,   \* category
    trace,      \* the fallback tiers taken for this file, in order
    new_path,   \* new_path
    now,        \* the clock: the instants datetime.now() has returned so far
    raised      \* the call whose exception ended the run: "mkdir", "log", or ""

vars ==
    << pc, runs, downloads, docDirs, docFiles, logExists, log, snapshot, pending,
       attempted, file, text, ocrUsed, probe, category, trace, new_path, now, raised >>

fsVars == << downloads, docDirs, docFiles >>
logVars == << logExists, log >>
scanVars == << snapshot, pending, attempted >>
fileVars == << file, text, ocrUsed, probe, category, trace, new_path >>

\* extract_text_from_file has not run for the file
NoProbe == [error |-> FALSE, layer |-> {}, stat |-> {}]

\* a directory someone may have made before the first start: DOCUMENTS/Math/n.txt
ClashPath == <<CATEGORIES[2], NotesTxt>>

Init ==
    /\ pc = "off"
    /\ runs = 0
    /\ downloads \in Directories
    /\ docDirs \in {{}} \cup {Ancestors(ClashPath) : n \in downloads \cap {NotesTxt}}
    /\ docFiles = {}
    /\ logExists = FALSE
    /\ log = <<>>
    /\ snapshot = {}
    /\ pending = {}
    /\ attempted = <<>>
    /\ file = None
    /\ text = <<>>
    /\ ocrUsed = FALSE
    /\ probe = NoProbe
    /\ category = None
    /\ trace = <<>>
    /\ new_path = None
    /\ now = 0
    /\ raised = ""

(* ------------------------ process start (144-148) ---------------------- *)

\* the header written at every start, after the rows the log holds
HeaderWriteEveryStart == Append(log, Header)

\* lines 145-148: the header is written, with mode 'w', only if the log is missing
HeaderWrite == IF ~logExists THEN <<Header>> ELSE log

\* no file is in the loop body: what the locals of process_downloads hold is dead
\* (each is assigned in the next body before it is read), or the process is over
NoLocals ==
    /\ file' = None
    /\ text' = <<>>
    /\ ocrUsed' = FALSE
    /\ probe' = NoProbe
    /\ category' = None
    /\ trace' = <<>>
    /\ new_path' = None

\* python main.py: the module-level code up to the call of process_downloads
InitLogFile ==
    /\ pc \in {"off", "done", "crashed"}
    /\ runs < MaxRuns
    /\ runs' = runs + 1
    /\ log' = HeaderWrite
    /\ logExists' = TRUE
    /\ raised' = ""
    /\ pc' = "scan"
    /\ UNCHANGED << fsVars, scanVars, fileVars, now >>

(* ----------------------- process_downloads (109-141) ------------------- *)

\* line 111: iterdir() lists the directory once; the order in which it yields the
\* entries is arbitrary, so the next entry is any entry not yet yielded
Scan ==
    /\ pc = "scan"
    /\ snapshot' = downloads
    /\ pending' = downloads
    /\ attempted' = <<>>
    /\ pc' = "next"
    /\ UNCHANGED << runs, fsVars, logVars, fileVars, now, raised >>

\* every entry of the listing taken for a file
IsFileAnyEntry(name) == name \in downloads

\* line 112: file_path.is_file()
IsFile(name) == name \in downloads /\ name \notin DirNames

\* lines 111-113: the next entry is a regular file; its loop body begins
BeginFile ==
    /\ pc = "next"
    /\ \E entry \in pending :
        /\ IsFile(entry)
        /\ pending' = pending \ {entry}
        /\ file' = entry
        /\ attempted' = Append(attempted, entry)
    /\ pc' = "extract"
    /\ UNCHANGED << runs, fsVars, logVars, snapshot, text, ocrUsed, probe, category,
                    trace, new_path, now, raised >>

\* lines 111-112: the next entry is no regular file and is passed over
SkipEntry ==
    /\ pc = "next"
    /\ \E entry \in pending :
        /\ ~IsFile(entry)
        /\ pending' = pending \ {entry}
    /\ UNCHANGED << pc, runs, fsVars, logVars, snapshot, attempted, fileVars, now, raised >>

\* line 141: the listing is exhausted and process_downloads returns
Finish ==
    /\ pc = "next"
    /\ pending = {}
    /\ pc' = "done"
    /\ UNCHANGED << runs, fsVars, logVars, scanVars, fileVars, now, raised >>

(* -------------------- extract_text_from_file (49-81) ------------------- *)

Ext(name) == Lower(Suffix(name))

DotTxt == <<".", "t", "x", "t">>
DotPdf == <<".", "p", "d", "f">>
DotDocx == <<".", "d", "o", "c", "x">>
ImageExts ==
    { <<".", "p", "n", "g">>, <<".", "j", "p", "g">>, <<".", "j", "p", "e", "g">>,
      <<".", "g", "i", "f">>, <<".", "b", "m", "p">> }

\* what exists() and stat().st_size of lines 69-70 may give for a listed image:
\* the file is gone since the listing, is empty, or holds data
ImageStats ==
    { [exists |-> FALSE, size |-> 0], [exists |-> TRUE, size |-> 0],
      [exists |-> TRUE, size |-> 1] }

\* line 114 with line 116: text is the extraction's result t, category starts as
\* None; a file found missing is no longer in DOWNLOADS
Extracted(t, ocr, p) ==
    /\ text' = t
    /\ ocrUsed' = ocr
    /\ probe' = p
    /\ category' = None
    /\ downloads' = downloads \ {file : st \in {x \in p.stat : ~x.exists}}
    /\ pc' = "content"
    /\ UNCHANGED << runs, docDirs, docFiles, logVars, scanVars, file, trace, new_path,
                    now, raised >>

\* the exception leaving extract_text_from_file and, nothing catching it at line 114,
\* process_downloads
Uncaught(ocr, p) ==
    /\ pc' = "crashed"
    /\ raised' = "extract"
    /\ NoLocals
    /\ UNCHANGED << runs, fsVars, logVars, scanVars, now >>

\* lines 79-81: any exception raised in lines 52-77 is caught and "" is returned
Caught(ocr, p) == Extracted(<<>>, ocr, [p EXCEPT !.error = TRUE])

\* lines 52-53: the file's characters, or "" when read_text raises
ExtractTxt ==
    /\ pc = "extract"
    /\ Ext(file) = DotTxt
    /\ \/ \E t \in Texts : Extracted(t, FALSE, NoProbe)
       \/ Caught(FALSE, NoProbe)

\* lines 31-44: the OCR of the pages
OcrPdf == Texts

\* lines 45-47: any exception raised in ocr_pdf is caught there and "" is returned
OcrPdfCaught(p) == Extracted(<<>>, TRUE, [p EXCEPT !.error = TRUE])

\* every PDF sent to ocr_pdf, whatever its text layer holds
NeedsOcrAlways(layer) == TRUE

\* lines 59-62: the text layer is returned unless text.strip() is empty
NeedsOcr(layer) == ~NonEmpty(Strip(layer))

\* lines 55-62: the text layer if it is not blank, else the OCR of the pages;
\* "" when fitz.open or get_text raises
ExtractPdf ==
    /\ pc = "extract"
    /\ Ext(file) = DotPdf
    /\ \/ \E layer \in Texts :
            /\ ~NeedsOcr(layer)
            /\ Extracted(layer, FALSE, [NoProbe EXCEPT !.layer = {layer}])
       \/ \E layer \in Texts :
            /\ NeedsOcr(layer)
            /\ \/ \E t \in OcrPdf : Extracted(t, TRUE, [NoProbe EXCEPT !.layer = {layer}])
               \/ OcrPdfCaught([NoProbe EXCEPT !.layer = {layer}])
       \/ Caught(FALSE, NoProbe)

\* lines 64-65: the paragraphs joined, or "" when Document raises
ExtractDocx ==
    /\ pc = "extract"
    /\ Ext(file) = DotDocx
    /\ \/ \E t \in Texts : Extracted(t, FALSE, NoProbe)
       \/ Caught(FALSE, NoProbe)

\* lines 67-73: "" for a missing or empty image, else the OCR of the image;
\* "" when stat or readtext raises
ExtractImage ==
    /\ pc = "extract"
    /\ Ext(file) \in ImageExts
    /\ \/ \E st \in ImageStats :
            /\ ~st.exists \/ st.size = 0
            /\ Extracted(<<>>, FALSE, [NoProbe EXCEPT !.stat = {st}])
       \/ \E st \in ImageStats :
            /\ ~(~st.exists \/ st.size = 0)
            /\ \/ \E t \in Texts : Extracted(t, TRUE, [NoProbe EXCEPT !.stat = {st}])
               \/ Caught(TRUE, [NoProbe EXCEPT !.stat = {st}])
       \/ Caught(FALSE, NoProbe)

\* lines 75-77: any other extension
ExtractUnsupported ==
    /\ pc = "extract"
    /\ Ext(file) \notin {DotTxt, DotPdf, DotDocx} \cup ImageExts
    /\ Extracted(<<>>, FALSE, NoProbe)

(* ------------------- the fallback controller (116-135) ----------------- *)

\* the slice text[:999]
ClassifierInputShort(t) == Prefix(t, ClassifyLimit - 1)

\* line 85: what classify_text hands to the classifier
ClassifierInput(t) == Prefix(t, ClassifyLimit)

\* line 86: result['labels'][0], one of the candidate labels; the model lets the
\* classifier rank the first, the second or the last label of CATEGORIES first
TopLabels == {CATEGORIES[1], CATEGORIES[2], CATEGORIES[Len(CATEGORIES)]}

\* the test `if text:`, without strip()
ContentRunsNoStrip(t) == NonEmpty(t)

\* line 118: the content tier runs
ContentRuns(t) == NonEmpty(Strip(t))

\* the filename tier entered whatever the content tier gave
FilenameRunsAlways(c) == TRUE

\* line 128: the filename tier runs
FilenameRuns(c) == ~Truthy(c)

\* the except branch of lines 133-135 leaving category unset
DefaultCategoryMissing == None

\* line 135: the default tier's category
DefaultCategory == Other

\* one entry of trace: the tier, what it handed to the classifier, and the label the
\* classifier returned (None if the call raised)
Call(tier, arg, label) == [tier |-> tier, arg |-> arg, label |-> label]

\* lines 118-125
ContentTier ==
    /\ pc = "content"
    /\ \/ /\ ContentRuns(text)
          /\ \E label \in TopLabels :
                /\ category' = label
                /\ trace' = Append(trace, Call("content", ClassifierInput(text), label))
       \/ /\ ContentRuns(text)
          /\ category' = category
          /\ trace' = Append(trace, Call("content", ClassifierInput(text), None))
       \/ /\ ~ContentRuns(text)
          /\ UNCHANGED << category, trace >>
    /\ pc' = "fallback"
    /\ UNCHANGED << runs, fsVars, logVars, scanVars, file, text, ocrUsed, probe, new_path,
                    now, raised >>

\* lines 128-135
FilenameTier ==
    /\ pc = "fallback"
    /\ \/ /\ FilenameRuns(category)
          /\ \E label \in TopLabels :
                /\ category' = label
                /\ trace' = Append(trace,
                                   Call("filename", ClassifierInput(ToRuns(Stem(file))), label))
       \/ /\ FilenameRuns(category)
          /\ category' = DefaultCategory
          /\ trace' = trace
                      \o << Call("filename", ClassifierInput(ToRuns(Stem(file))), None),
                            Call("default", <<>>, DefaultCategory) >>
       \/ /\ ~FilenameRuns(category)
          /\ UNCHANGED << category, trace >>
    /\ pc' = "move"
    /\ UNCHANGED << runs, fsVars, logVars, scanVars, file, text, ocrUsed, probe, new_path,
                    now, raised >>

(* --------------------------- move_file (89-100) ------------------------ *)

\* line 90: DOCUMENTS / category, as the components below DOCUMENTS
Destination(c) == SplitPath(c, <<>>)

\* line 92
Target(c, name) == Append(Destination(c), name)

\* shutil.move (line 95): a destination that is a directory receives the file inside it
RealDst(dirs, target, name) == IF target \in dirs THEN Append(target, name) ELSE target

\* lines 97 and 100: what move_file returns
MoveResult(moved, target) == IF moved THEN PathStr(target) ELSE None

\* line 138: the move is logged
Logged(p) == Truthy(p)

\* line 137, with the test of line 138
MoveFile ==
    /\ pc = "move"
    /\ LET destination == Destination(category)
           target == Target(category, file)
           dirs == docDirs \cup Ancestors(destination)
           real == RealDst(dirs, target, file)
       IN  \/ \* line 91 raises: it is outside the try, so the error leaves move_file
              \* and process_downloads
              /\ pc' = "crashed"
              /\ raised' = "mkdir"
              /\ NoLocals
              /\ UNCHANGED fsVars
           \/ \* line 95 moves the file
              /\ file \in downloads
              /\ Ancestors(destination) \cap {f.path : f \in docFiles} = {}
              /\ real \notin docDirs
              /\ ~(target \in dirs /\ real \in {f.path : f \in docFiles})
              /\ docDirs' = dirs
              /\ docFiles' = {f \in docFiles : f.path # real}
                                \cup {[path |-> real, name |-> file]}
              /\ downloads' = downloads \ {file}
              /\ IF Logged(MoveResult(TRUE, target))
                 THEN /\ new_path' = MoveResult(TRUE, target)
                      /\ pc' = "log"
                      /\ UNCHANGED << file, text, ocrUsed, probe, category, trace >>
                 ELSE /\ pc' = "next"
                      /\ NoLocals
              /\ raised' = raised
           \/ \* line 95 raises: caught in lines 98-100
              /\ Ancestors(destination) \cap {f.path : f \in docFiles} = {}
              /\ docDirs' = dirs
              /\ UNCHANGED << downloads, docFiles >>
              /\ IF Logged(MoveResult(FALSE, target))
                 THEN /\ new_path' = MoveResult(FALSE, target)
                      /\ pc' = "log"
                      /\ UNCHANGED << file, text, ocrUsed, probe, category, trace >>
                 ELSE /\ pc' = "next"
                      /\ NoLocals
              /\ raised' = raised
    /\ UNCHANGED << runs, logVars, scanVars, now >>

(* --------------------------- log_action (103-106) ---------------------- *)

\* line 106: the row
Row(name, c, p, t) == <<IsoFormat(t), name, c, p>>

\* the row put right after the header, before the older rows
WriteRowAfterHeader(rows, row) == <<Head(rows), row>> \o Tail(rows)

\* lines 104-106: mode 'a' puts the row after the rows the file holds
WriteRow(rows, row) == Append(rows, row)

\* the exception of log_action caught around line 139, the loop going on
LogRaisesCaught ==
    /\ pc' = "next"
    /\ raised' = raised
    /\ UNCHANGED << logVars, now >>

\* lines 104-106 raise (open or writerow): neither log_action nor lines 138-139
\* catch, so the exception leaves process_downloads
LogRaises ==
    /\ pc' = "crashed"
    /\ raised' = "log"
    /\ UNCHANGED << logVars, now >>

\* line 139; the loop body ends with it
LogAction ==
    /\ pc = "log"
    /\ \/ /\ log' = WriteRow(log, Row(file, category, new_path, now + 1))
          /\ now' = now + 1
          /\ logExists' = TRUE
          /\ pc' = "next"
          /\ raised' = raised
       \/ LogRaises
    /\ NoLocals
    /\ UNCHANGED << runs, fsVars, scanVars >>

(* ---------------------------- specification ---------------------------- *)

Next ==
    \/ InitLogFile
    \/ Scan
    \/ BeginFile
    \/ SkipEntry
    \/ Finish
    \/ ExtractTxt
    \/ ExtractPdf
    \/ ExtractDocx
    \/ ExtractImage
    \/ ExtractUnsupported
    \/ ContentTier
    \/ FilenameTier
    \/ MoveFile
    \/ LogAction

Spec == Init /\ [][Next]_vars

(* ------------------------------- claims -------------------------------- *)

\* the data rows of the log: every row after the first
DataRows == 2..Len(log)

\* how many data rows name the file
RowsOf(name) == Cardinality({i \in DataRows : log[i][2] = name})

\* text.strip() is empty
TextBlank == ~NonEmpty(Strip(text))

\* the controller is through with the file in the loop body
Decided == pc \in {"move", "log"}

TiersTaken == [i \in 1..Len(trace) |-> trace[i].tier]

TierRan(tier) == \E i \in 1..Len(trace) : trace[i].tier = tier

\* the tier called the classifier and the call raised
TierRaised(tier) == \E i \in 1..Len(trace) : trace[i].tier = tier /\ trace[i].label = None

\* C1: every row of the audit log names a file that is, under DOCUMENTS, at exactly
\* the new_path of the row: no row for a file that was not moved there.
C1_LoggedFileIsAtNewPath ==
    \A i \in DataRows :
        \E f \in docFiles : f.name = log[i][2] /\ PathStr(f.path) = log[i][4]

\* C2 as claimed: whenever the extracted text is not blank, the category is the top
\* label the classifier returned for that text.
C2_CategoryIsContentLabel ==
    (Decided /\ ~TextBlank) =>
        \E i \in 1..Len(trace) : trace[i].tier = "content" /\ trace[i].label = category

\* C2 amended: whenever the extracted text is not blank, the content tier is the
\* first tier taken, and if its call returned a label, the category is that label.
C2_CategoryIsContentLabelIfReturned ==
    (Decided /\ ~TextBlank) =>
        /\ trace # <<>>
        /\ trace[1].tier = "content"
        /\ trace[1].label # None => category = trace[1].label

C2_Witness ==
    /\ Decided
    /\ ~TextBlank
    /\ Len(trace) = 1
    /\ trace[1].tier = "content"
    /\ category = trace[1].label
    /\ category = CATEGORIES[2]

\* C3 as claimed: whenever the extracted text is blank, the category is the top
\* label returned for the file's stem, and the filename tier is taken exactly when
\* the text is blank.
C3_FilenameTierIffBlank ==
    Decided =>
        /\ TextBlank =>
             \E i \in 1..Len(trace) : trace[i].tier = "filename" /\ trace[i].label = category
        /\ TierRan("filename") <=> TextBlank

\* C3 amended: whenever the extracted text is blank, the filename tier is the first
\* tier taken, it classifies the stem, and if its call returned a label the category
\* is that label; the filename tier is taken exactly when the text is blank or the
\* content tier's call raised.
C3_FilenameTierIffNoContentLabel ==
    Decided =>
        /\ TextBlank =>
             /\ trace # <<>>
             /\ trace[1].tier = "filename"
             /\ trace[1].arg = ToRuns(Stem(file))
             /\ trace[1].label # None => category = trace[1].label
        /\ TierRan("filename") <=> (TextBlank \/ TierRaised("content"))

C3_Witness ==
    /\ Decided
    /\ TextBlank
    /\ text # <<>>
    /\ file = NotesTxt
    /\ trace = <<Call("filename", <<[ch |-> "n", n |-> 1]>>, CATEGORIES[1])>>
    /\ category = CATEGORIES[1]

\* C4: when the filename tier's call raised (after the content tier's call raised,
\* or without a content tier), the category is "Other"; the controller raises
\* nothing, so the step after it is the call of move_file.
C4_DefaultAfterFailures ==
    /\ [](Decided /\ TierRaised("filename") => category = Other /\ raised = "")
    /\ [][pc = "fallback" => pc' = "move"]_vars

C4_Witness ==
    /\ pc = "move"
    /\ TierRaised("content")
    /\ TierRaised("filename")
    /\ category = Other

\* C5: a relocation that fails (the folder cannot be made, or the move fails) makes
\* move_file return None: no row is written and the loop goes on to the next file.
C5_FailedMoveIsSkipped ==
    [][(pc = "move" /\ docFiles' = docFiles) => (log' = log /\ pc' = "next")]_vars

\* C6: unless a log write fails, the run ends normally, and by then every regular
\* file of the listing was taken exactly once.
C6_RunCompletes ==
    /\ pc = "crashed" => raised = "log"
    /\ pc = "done" =>
         /\ {attempted[i] : i \in 1..Len(attempted)} = {n \in snapshot : n \notin DirNames}
         /\ \A i, j \in 1..Len(attempted) : attempted[i] = attempted[j] => i = j

\* C7: once the process has been started, the log begins with the header row and
\* holds no other header row, however often the process is started.
C7_OneHeaderFirst ==
    runs > 0 =>
        /\ log # <<>>
        /\ log[1] = Header
        /\ \A i \in DataRows : log[i] # Header

C7_Witness ==
    /\ runs >= 2
    /\ pc = "done"
    /\ Len(log) >= 2

IsPrefix(a, b) == Len(a) <= Len(b) /\ \A i \in 1..Len(a) : a[i] = b[i]

\* the instant a timestamp cell was written at
TsValue(ts) ==
    LET Val(c) == CHOOSE d \in 0..9 : Digit(d) = c
    IN  10 * Val(ts[1]) + Val(ts[2])

\* the data rows are in the order in which they were written
RowsInOrder ==
    \A i, j \in DataRows : i < j => TsValue(log[i][1]) < TsValue(log[j][1])

\* C8 as claimed: the rows are in processing order and every file that was moved
\* under DOCUMENTS has exactly one row (the row of the file in the loop body may
\* still be due while log_action has not been called).
C8_OneRowPerRelocatedFile ==
    /\ RowsInOrder
    /\ pc # "log" => \A f \in docFiles : RowsOf(f.name) = 1

\* C8 amended: every step leaves the log's earlier content as a prefix of the new
\* content; the rows are in processing order; a file moved under DOCUMENTS has at
\* most one row, and the log_action call that returns has added exactly its row.
C8_AppendOnlyOneRowPerLoggedFile ==
    /\ [][IsPrefix(log, log')]_vars
    /\ [](RowsInOrder /\ \A f \in docFiles : RowsOf(f.name) <= 1)
    /\ [][(pc = "log" /\ pc' = "next") =>
            /\ log' = Append(log, log'[Len(log')])
            /\ log'[Len(log')][2] = file
            /\ log'[Len(log')][4] = new_path
            /\ \E f \in docFiles : f.name = file]_vars

C8_Witness ==
    /\ runs = 2
    /\ pc = "next"
    /\ Len(log) = 3
    /\ log[2][2] # log[3][2]
    /\ snapshot = {log[3][2]}

TierRank(tier) ==
    CASE tier = "content" -> 1
      [] tier = "filename" -> 2
      [] OTHER -> 3

\* C9: the tiers are taken in the order content, filename, default, each at most
\* once, so the classifier is called at most twice for a file; once the controller
\* is through, the content tier was taken iff the text is not blank, the filename
\* tier iff the text is blank or the content call raised, the default tier iff the
\* filename call raised, and a label returned to the content tier ended the trace.
C9_TiersInOrder ==
    /\ \A i, j \in 1..Len(trace) : i < j => TierRank(trace[i].tier) < TierRank(trace[j].tier)
    /\ Cardinality({i \in 1..Len(trace) : trace[i].tier # "default"}) <= 2
    /\ Decided =>
         /\ TierRan("content") <=> ~TextBlank
         /\ TierRan("filename") <=> (TextBlank \/ TierRaised("content"))
         /\ TierRan("default") <=> TierRaised("filename")
         /\ (trace[1].tier = "content" /\ trace[1].label # None) => Len(trace) = 1
         /\ category = trace[Len(trace)].label

C9_Witness ==
    /\ Decided
    /\ TiersTaken = <<"content", "filename", "default">>

\* C10: when move_file is called, category is a non-empty string and one of the
\* labels of CATEGORIES; the labels are pairwise different and "Other" is one.
C10_CategoryIsALabel ==
    /\ pc = "move" =>
         /\ Truthy(category)
         /\ \E i \in 1..Len(CATEGORIES) : category = CATEGORIES[i]
    /\ \A i, j \in 1..Len(CATEGORIES) : CATEGORIES[i] = CATEGORIES[j] => i = j
    /\ \E i \in 1..Len(CATEGORIES) : CATEGORIES[i] = Other

C10_Witness ==
    /\ pc = "move"
    /\ category = CATEGORIES[1]
    /\ TierRan("filename")

\* C11: once move_file has relocated the file, the folder of its category is a single
\* folder directly under DOCUMENTS (one path level below it) and the file is at
\* DOCUMENTS/<category>/<file name>, for every label of CATEGORIES.
C11_FileInCategoryFolder ==
    pc = "log" =>
        /\ Destination(category) = <<category>>
        /\ [path |-> <<category, file>>, name |-> file] \in docFiles

\* C12: extract_text_from_file never raises: the step that extracts always hands a
\* text to the controller, a run never ends on an exception of the extraction, and
\* whenever reading, parsing or OCR failed the text is empty, so the content tier is
\* not taken and the file is classified by its name.
C12_ExtractionNeverRaises ==
    /\ [][pc = "extract" => pc' = "content"]_vars
    /\ [](pc = "crashed" => raised \in {"mkdir", "log"})
    /\ [](probe.error => text = <<>>)
    /\ []((Decided /\ probe.error) => (~TierRan("content") /\ trace[1].tier = "filename"))

C12_Witness ==
    /\ Decided
    /\ probe.error
    /\ ocrUsed
    /\ Ext(file) = DotPdf
    /\ trace[1].tier = "filename"

\* C13: a failing log write is not caught: the step that fails to add the row ends
\* the run with the exception of log_action, leaving the file relocated and without
\* a row; after it nothing happens in that run (the only step left is a new start
\* of the program, which moves nothing and writes no row), so the entries the loop
\* had not reached are still in DOWNLOADS, unmoved and unlogged.
C13_LogFailureStopsRun ==
    /\ [][(pc = "log" /\ log' = log) =>
            /\ pc' = "crashed"
            /\ raised' = "log"
            /\ UNCHANGED << fsVars, pending >>
            /\ \E f \in docFiles' : f.name = file
            /\ RowsOf(file) = 0]_vars
    /\ [][pc = "crashed" => (pc' = "scan" /\ runs' = runs + 1 /\ UNCHANGED << fsVars, log >>)]_vars
    /\ []((pc = "crashed" /\ raised = "log") =>
            \A entry \in pending :
                /\ entry \in downloads
                /\ entry \notin {f.name : f \in docFiles}
                /\ RowsOf(entry) = 0)

C13_Witness ==
    /\ pc = "crashed"
    /\ raised = "log"
    /\ \E entry \in pending : IsFile(entry)
    /\ \E f \in docFiles : RowsOf(f.name) = 0

\* extract_text_from_file has returned for the file in the loop body
AfterExtract == pc \in {"content", "fallback", "move", "log"}

\* C14: the OCR path is taken for a file only if it is a PDF whose text layer is
\* empty or whitespace-only, or an image that exists and is not empty; a PDF with a
\* non-blank text layer is not sent to OCR and its text layer is the result; a
\* missing or empty image and a file with an unsupported extension are not sent to
\* OCR and give the empty text without an exception; .txt and .docx never use OCR.
C14_OcrOnlyWhenNeeded ==
    AfterExtract =>
        /\ ocrUsed =>
             \/ /\ Ext(file) = DotPdf
                /\ \E layer \in probe.layer : ~NonEmpty(Strip(layer))
             \/ /\ Ext(file) \in ImageExts
                /\ \E st \in probe.stat : st.exists /\ st.size > 0
        /\ \A layer \in probe.layer :
             (Ext(file) = DotPdf /\ NonEmpty(Strip(layer))) => (~ocrUsed /\ text = layer)
        /\ \A st \in probe.stat :
             (Ext(file) \in ImageExts /\ (~st.exists \/ st.size = 0)) =>
                (~ocrUsed /\ text = <<>> /\ ~probe.error)
        /\ Ext(file) \notin {DotTxt, DotPdf, DotDocx} \cup ImageExts =>
             (~ocrUsed /\ text = <<>> /\ ~probe.error)
        /\ Ext(file) \in {DotTxt, DotDocx} => ~ocrUsed

C14_Witness ==
    /\ AfterExtract
    /\ Ext(file) = DotPdf
    /\ probe.layer = {<<Sp(1)>>}
    /\ ocrUsed
    /\ NonEmpty(Strip(text))

\* C15: every entry whose loop body is entered is an entry of the listing of
\* DOWNLOADS that is a regular file; a subdirectory is never given to the extraction,
\* the classifier or move_file, never appears below DOCUMENTS or in a row of the
\* log, and stays in DOWNLOADS (with what it holds) once listed.
C15_OnlyTopLevelFiles ==
    /\ \A i \in 1..Len(attempted) :
         attempted[i] \in snapshot /\ attempted[i] \notin DirNames
    /\ file # None => (file \in snapshot /\ file \notin DirNames)
    /\ \A d \in DirNames :
         /\ d \notin {f.name : f \in docFiles}
         /\ RowsOf(d) = 0
         /\ d \in snapshot => d \in downloads

C15_Witness ==
    /\ pc = "done"
    /\ SubDir \in snapshot
    /\ \E f \in docFiles : f.name \in snapshot /\ RowsOf(f.name) = 1

\* the call of the content tier in trace, if it was made
ContentCalls == {i \in 1..Len(trace) : trace[i].tier = "content"}

\* how many whitespace characters the text starts with
LeadingBlanks(t) == TextLen(t) - TextLen(LStrip(t))

\* C16 as claimed: whenever the content tier called the classifier, the text handed
\* to it (the first 1000 characters of the extracted text) holds a character that is
\* no whitespace.
C16_ClassifiedPrefixNotBlank ==
    Decided => \A i \in ContentCalls : NonEmpty(Strip(trace[i].arg))

\* C16: whenever the content tier called the classifier, the extracted text holds a
\* character that is no whitespace and the text handed over is its first 1000
\* characters, which is not empty; it holds a character that is no whitespace
\* exactly if the text starts with fewer than 1000 whitespace characters.
C16_ClassifiedPrefixOfNonBlankText ==
    Decided =>
        \A i \in ContentCalls :
            /\ NonEmpty(Strip(text))
            /\ trace[i].arg = Prefix(text, ClassifyLimit)
            /\ NonEmpty(trace[i].arg)
            /\ TextLen(trace[i].arg) <= ClassifyLimit
            /\ NonEmpty(Strip(trace[i].arg)) <=> LeadingBlanks(text) < ClassifyLimit

C16_Witness ==
    /\ Decided
    /\ ContentCalls # {}
    /\ LeadingBlanks(text) = ClassifyLimit
    /\ \A i \in ContentCalls : ~NonEmpty(Strip(trace[i].arg))

====
